---------------------------- MODULE Spec2Model ----------------------------
(***************************************************************************)
(* One analysis run of the Climate Risk dashboard (src/app.py): the        *)
(* climate engine get_climate_data, the water-risk engine                  *)
(* get_water_risk_data, the assembler calculate_risk_table and the main    *)
(* block that renders the result.                                          *)
(*                                                                         *)
(* Numbers are exact rationals [n, d] in lowest terms with d > 0; the      *)
(* float NaN is the value [n |-> 0, d |-> 0].  A TimePoint carries the     *)
(* year of its date, which is all the decadal slicing df.loc['2021':'2030']*)
(* looks at.  Python's None is the option value None, a present value v is *)
(* Some(v).  A dict is a sequence of entries in insertion order.           *)
(***************************************************************************)
EXTENDS Integers, Sequences, FiniteSets, TLC

VARIABLES
    pc,           \* the position of the run
    hist_resp,    \* get_climate_data: the archive response, once fetched
    sc_i,         \* get_climate_data: the scenario the loop is at
    future_data,  \* get_climate_data: the dict filled by the loop
    calls,        \* history: what became of each climate request of the run
    c_data,       \* main: the result of get_climate_data
    w_data,       \* main: the result of get_water_risk_data
    rendered,     \* what the page shows
    arg,          \* SpecPure: the input of the step called on its own
    ret           \* SpecPure: its result

vars == <<pc, hist_resp, sc_i, future_data, calls, c_data, w_data, rendered, arg, ret>>

(***************************************************************************)
(* Bounds of the model.                                                    *)
(***************************************************************************)
\* TimePoints in one response of the run (baseline or scenario series).
MaxPts == 2
\* TimePoints in a series handed to the aggregation steps on their own.
MaxAggPts == 3

(***************************************************************************)
(* Option values and numbers.                                              *)
(***************************************************************************)
None == [some |-> FALSE]

Some(v) == [some |-> TRUE, val |-> v]

NaN == [n |-> 0, d |-> 0]

IsNaN(x) == x.d = 0

Abs(k) == IF k < 0 THEN -k ELSE k

RECURSIVE GCD(_, _)
GCD(a, b) == IF b = 0 THEN a ELSE GCD(b, a % b)

\* n/d in lowest terms, d # 0.
Rat(n, d) ==
    LET g == GCD(Abs(n), Abs(d))
        s == IF d < 0 THEN -1 ELSE 1
    IN  [n |-> (s * n) \div g, d |-> (s * d) \div g]

Num(k) == [n |-> k, d |-> 1]

RAdd(x, y) == IF IsNaN(x) \/ IsNaN(y) THEN NaN ELSE Rat(x.n * y.d + y.n * x.d, x.d * y.d)

RSub(x, y) == IF IsNaN(x) \/ IsNaN(y) THEN NaN ELSE Rat(x.n * y.d - y.n * x.d, x.d * y.d)

RMulInt(x, k) == IF IsNaN(x) THEN NaN ELSE Rat(x.n * k, x.d)

RDivInt(x, k) == IF IsNaN(x) THEN NaN ELSE Rat(x.n, x.d * k)

\* x / y for y # 0.
RDiv(x, y) == IF IsNaN(x) \/ IsNaN(y) THEN NaN ELSE Rat(x.n * y.d, x.d * y.n)

\* Float comparisons: every comparison with NaN is false.
RLt(x, y) == ~IsNaN(x) /\ ~IsNaN(y) /\ x.n * y.d < y.n * x.d

RGt(x, y) == RLt(y, x)

\* Python's x != 0 on a float: NaN != 0 is true.
NotZero(x) == IsNaN(x) \/ x.n # 0

(***************************************************************************)
(* numpy and pandas reductions over a sequence of values.                  *)
(***************************************************************************)
RECURSIVE SumSeq(_)
SumSeq(vals) == IF Len(vals) = 0 THEN Num(0) ELSE RAdd(Head(vals), SumSeq(Tail(vals)))

NonNull(vals) == SelectSeq(vals, LAMBDA v : ~IsNaN(v))

\* ndarray.sum(): NaN as soon as one element is NaN, 0.0 for an empty array.
NumpySum(vals) == SumSeq(vals)

\* ndarray.mean(): NaN as soon as one element is NaN, NaN for an empty array.
NumpyMean(vals) == IF Len(vals) = 0 THEN NaN ELSE RDivInt(SumSeq(vals), Len(vals))

\* Series.sum(), skipna: the sum of the non-null values, 0.0 when there is none.
PandasSum(vals) == SumSeq(NonNull(vals))

\* Series.mean(), skipna: the mean of the non-null values, NaN when there is none.
PandasMean(vals) ==
    LET nn == NonNull(vals)
    IN  IF Len(nn) = 0 THEN NaN ELSE RDivInt(SumSeq(nn), Len(nn))

Column(df, col) == [i \in 1..Len(df) |-> df[i][col]]

(***************************************************************************)
(* Strings: the characters of every literal the code searches in or for,   *)
(* str.lower() and the substring test `needle in hay`.                     *)
(***************************************************************************)
Chars ==
       ("SSP1-2.6 (Ambitious)" :> <<"S","S","P","1","-","2",".","6"," ","(","A","m","b","i","t","i","o","u","s",")">>)
    @@ ("SSP2-4.5 (Optimistic)" :> <<"S","S","P","2","-","4",".","5"," ","(","O","p","t","i","m","i","s","t","i","c",")">>)
    @@ ("SSP3-7.0 (BAU)" :> <<"S","S","P","3","-","7",".","0"," ","(","B","A","U",")">>)
    @@ ("2020s (2021-30)" :> <<"2","0","2","0","s"," ","(","2","0","2","1","-","3","0",")">>)
    @@ ("2030s (2031-40)" :> <<"2","0","3","0","s"," ","(","2","0","3","1","-","4","0",")">>)
    @@ ("2040s (2041-50)" :> <<"2","0","4","0","s"," ","(","2","0","4","1","-","5","0",")">>)
    @@ ("ssp1" :> <<"s","s","p","1">>)
    @@ ("ssp2" :> <<"s","s","p","2">>)
    @@ ("ssp3" :> <<"s","s","p","3">>)
    @@ ("ssp5" :> <<"s","s","p","5">>)
    @@ ("2040" :> <<"2","0","4","0">>)
    @@ ("2050" :> <<"2","0","5","0">>)

Upper == <<"A","B","C","D","E","F","G","H","I","J","K","L","M","N","O","P","Q","R","S","T","U","V","W","X","Y","Z">>

LowerOf == <<"a","b","c","d","e","f","g","h","i","j","k","l","m","n","o","p","q","r","s","t","u","v","w","x","y","z">>

LowerChar(c) ==
    IF \E i \in 1..Len(Upper) : Upper[i] = c
    THEN LowerOf[CHOOSE i \in 1..Len(Upper) : Upper[i] = c]
    ELSE c

\* s.lower(), as characters, of every literal.
LowerChars == [s \in DOMAIN Chars |-> [i \in 1..Len(Chars[s]) |-> LowerChar(Chars[s][i])]]

Lower(s) == LowerChars[s]

\* needle in hay, both as characters.
Contains(hay, needle) ==
    \E i \in 0..(Len(hay) - Len(needle)) :
        \A j \in 1..Len(needle) : hay[i + j] = needle[j]


(***************************************************************************)
(* Inputs of the model: what the remote services may answer.               *)
(***************************************************************************)
SeqsUpTo(S, n) == UNION {[1..k -> S] : k \in 0..n}

\* A TimePoint's values in the archive response: observed, or missing (NaN).
HistObs == {[temp |-> NaN, precip |-> NaN], [temp |-> Num(16), precip |-> Num(5500)]}

\* A TimePoint's values in a scenario response of the run.  Series with missing
\* values are put through the slicing in SpecPure.
RunObs == {[temp |-> Num(16), precip |-> Num(5500)]}

\* The calendar years a TimePoint of the 2021-2050 response may fall in: the
\* first and the last year of every decade window.
RunYears == {2021, 2030, 2031, 2040, 2041, 2050}

Points(years, obs) == {[year |-> y, temp |-> o.temp, precip |-> o.precip] : y \in years, o \in obs}

\* Daily series of at most n points in date order (pd.date_range is ascending).
RECURSIVE SeriesOf(_, _, _)
SeriesOf(years, obs, n) ==
    IF n = 0
    THEN {<<>>}
    ELSE LET shorter == SeriesOf(years, obs, n - 1)
         IN  shorter \cup
             {Append(s, pt) : <<s, pt>> \in
                 {x \in shorter \X Points(years, obs) :
                     /\ Len(x[1]) = n - 1
                     /\ (n = 1 \/ x[1][n - 1].year <= x[2].year)}}

\* The archive response: its dates feed only the monthly chart, so a point
\* carries its two values.
HistSeries == SeqsUpTo(HistObs, MaxPts)

FutureSeries == SeriesOf(RunYears, RunObs, MaxPts)

(***************************************************************************)
(* get_climate_data.                                                       *)
(***************************************************************************)
scenarios_to_fetch ==
    << [key |-> "ssp1_2_6", name |-> "SSP1-2.6 (Ambitious)"],
       [key |-> "ssp2_4_5", name |-> "SSP2-4.5 (Optimistic)"],
       [key |-> "ssp3_7_0", name |-> "SSP3-7.0 (BAU)"] >>

ClimateCalls == {"baseline"} \cup {scenarios_to_fetch[i].key : i \in 1..Len(scenarios_to_fetch)}

\* The divisors of the precipitation sums.
DecadeYears == 10

BaselineYears == 30

\* The decades dict: name and the year slice df_f.loc[from:to], both ends included.
decades ==
    << [name |-> "2020s (2021-30)", from |-> 2021, to |-> 2030],
       [name |-> "2030s (2031-40)", from |-> 2031, to |-> 2040],
       [name |-> "2040s (2041-50)", from |-> 2041, to |-> 2050] >>

\* df.loc['from':'to'].
Slice(df, from, to) == SelectSeq(df, LAMBDA pt : pt.year >= from /\ pt.year <= to)

\* The metrics of one non-empty decade slice.
DecadeMetrics(d_df) ==
    [temp |-> PandasMean(Column(d_df, "temp")),
     precip |-> RDivInt(PandasSum(Column(d_df, "precip")), DecadeYears)]

\* future_data[sc_name]: one entry per decade whose slice is not empty, in the
\* order of the decades dict.
DecadalSlicing(df_f) ==
    LET kept == SelectSeq(decades, LAMBDA d : Len(Slice(df_f, d.from, d.to)) > 0)
    IN  [i \in 1..Len(kept) |->
            [name |-> kept[i].name,
             metrics |-> DecadeMetrics(Slice(df_f, kept[i].from, kept[i].to))]]

\* baseline_temp and baseline_precip, over the whole response arrays.
BaselineAggregates(h) ==
    [baseline_temp |-> NumpyMean(Column(h, "temp")),
     baseline_precip |-> RDivInt(NumpySum(Column(h, "precip")), BaselineYears)]

\* The except branch: st.error and return None, whatever was fetched so far.
ClimateFails(call) ==
    /\ calls' = [calls EXCEPT ![call] = "failed"]
    /\ c_data' = None
    /\ hist_resp' = None
    /\ future_data' = <<>>
    /\ sc_i' = 1
    /\ pc' = "water"
    /\ UNCHANGED <<w_data, rendered, arg, ret>>

FetchHistorical ==
    /\ pc = "fetch_hist"
    /\ \E h \in HistSeries : hist_resp' = Some(h)
    /\ calls' = [calls EXCEPT !["baseline"] = "ok"]
    /\ pc' = "fetch_scenario"
    /\ UNCHANGED <<sc_i, future_data, c_data, w_data, rendered, arg, ret>>

FetchHistoricalFails ==
    /\ pc = "fetch_hist"
    /\ ClimateFails("baseline")

\* One iteration of the scenario loop: the request, the data frame, the slicing.
FetchScenario ==
    /\ pc = "fetch_scenario"
    /\ \E df_f \in FutureSeries :
          future_data' = Append(future_data,
                                [name |-> scenarios_to_fetch[sc_i].name,
                                 decades |-> DecadalSlicing(df_f)])
    /\ calls' = [calls EXCEPT ![scenarios_to_fetch[sc_i].key] = "ok"]
    /\ IF sc_i = Len(scenarios_to_fetch)
       THEN pc' = "process_hist" /\ sc_i' = sc_i
       ELSE pc' = pc /\ sc_i' = sc_i + 1
    /\ UNCHANGED <<hist_resp, c_data, w_data, rendered, arg, ret>>

FetchScenarioFails ==
    /\ pc = "fetch_scenario"
    /\ ClimateFails(scenarios_to_fetch[sc_i].key)

\* The historical baseline and the returned dict.  The monthly climatology
\* (lines 131-133) feeds only plot_chart and is not carried.
ProcessHistorical ==
    /\ pc = "process_hist"
    /\ c_data' = Some(BaselineAggregates(hist_resp.val) @@ [future |-> future_data])
    /\ hist_resp' = None
    /\ future_data' = <<>>
    /\ sc_i' = 1
    /\ pc' = "water"
    /\ UNCHANGED <<calls, w_data, rendered, arg, ret>>

(***************************************************************************)
(* get_water_risk_data.                                                    *)
(***************************************************************************)
\* get_table_name: the table name, or None on any failure.
TableNames == {None, Some("table")}

BaselineRecord == [bws_label |-> "Medium - High (20-40%)", bws_score |-> 2]

cols_future == <<"bau30_ws_x_l", "bau50_ws_x_l", "opt30_ws_x_l", "opt50_ws_x_l", "pes30_ws_x_l", "pes50_ws_x_l">>

FutureLabels == <<"High (40-80%)", "Extremely high (>80%)", "Low (<10%)", "Low-medium (10-20%)", "Medium-high (20-40%)", "Arid and low water use">>

Range(seq) == {seq[i] : i \in 1..Len(seq)}

\* A record of the future table with the columns ks.
FutureRecord(ks) ==
    [k \in ks |-> FutureLabels[CHOOSE i \in 1..Len(cols_future) : cols_future[i] = k]]

\* query_rw: the first record, or None (no record, or any failure).
BaselineResults == {None, Some(BaselineRecord)}

FutureResults ==
    {None,
     Some(FutureRecord(Range(cols_future))),
     Some(FutureRecord({"bau30_ws_x_l", "opt30_ws_x_l", "pes30_ws_x_l"}))}

GetWaterRiskData ==
    /\ pc = "water"
    /\ \E table_base \in TableNames, table_future \in TableNames,
          base_q \in BaselineResults, future_q \in FutureResults :
          w_data' = [baseline |-> IF table_base.some THEN base_q ELSE None,
                     future |-> IF table_future.some THEN future_q ELSE None]
    /\ pc' = "main"
    /\ UNCHANGED <<hist_resp, sc_i, future_data, calls, c_data, rendered, arg, ret>>


(***************************************************************************)
(* calculate_risk_table.                                                   *)
(***************************************************************************)
\* get_climate_labels with the drought "High" threshold at the wildfire one.
get_climate_labels_Drought600(t, p) ==
    [drought |-> IF RLt(p, Num(600)) THEN "High" ELSE IF RLt(p, Num(800)) THEN "Medium" ELSE "Low",
     flood |-> IF RGt(p, Num(1200)) THEN "High" ELSE IF RGt(p, Num(800)) THEN "Medium" ELSE "Low",
     wildfire |-> IF RGt(t, Num(15)) /\ RLt(p, Num(600)) THEN "High" ELSE "Low"]

\* Helper for Heat/Flood/Drought based on climate data.
get_climate_labels(t, p) ==
    [drought |-> IF RLt(p, Num(500)) THEN "High" ELSE IF RLt(p, Num(800)) THEN "Medium" ELSE "Low",
     flood |-> IF RGt(p, Num(1200)) THEN "High" ELSE IF RGt(p, Num(800)) THEN "Medium" ELSE "Low",
     wildfire |-> IF RGt(t, Num(15)) /\ RLt(p, Num(600)) THEN "High" ELSE "Low"]

\* bool(d) of an optional dict: None and {} are false.
Truthy(d) == d.some /\ DOMAIN d.val # {}

\* The WRI column prefix of a scenario name: three ifs in sequence.
WriPrefix(scenario) ==
    LET low == Lower(scenario)
        p0 == "bau"
        p1 == IF Contains(low, Chars["ssp1"]) THEN "opt" ELSE p0
        p2 == IF Contains(low, Chars["ssp5"]) \/ Contains(low, Chars["ssp3"]) THEN "pes" ELSE p1
    IN  IF Contains(low, Chars["ssp2"]) THEN "bau" ELSE p2

\* WriYear taking the decade's own label for the horizon: "2030" or "2040".
WriYear_OwnDecade(decade) ==
    IF Contains(Chars[decade], Chars["2040"]) \/ Contains(Chars[decade], <<"2","0","3","0">>)
    THEN "50"
    ELSE "30"

\* The WRI horizon of a decade name.
WriYear(decade) ==
    IF Contains(Chars[decade], Chars["2040"]) \/ Contains(Chars[decade], Chars["2050"])
    THEN "50"
    ELSE "30"

\* WriPrefix and WriYear over the names the run passes in, evaluated once.
PrefixOf == [scenario \in {scenarios_to_fetch[i].name : i \in 1..Len(scenarios_to_fetch)} |-> WriPrefix(scenario)]

YearOf == [decade \in {decades[k].name : k \in 1..Len(decades)} |-> WriYear(decade)]

\* get_water_stress_label filling a missing label with a default risk level.
get_water_stress_label_DefaultLow(water_data, scenario, decade) ==
    IF ~Truthy(water_data.future)
    THEN IF Truthy(water_data.baseline) THEN water_data.baseline.val.bws_label ELSE "Low"
    ELSE LET f == water_data.future.val
             key == PrefixOf[scenario] \o YearOf[decade] \o "_ws_x_l"
         IN  IF key \in DOMAIN f THEN f[key] ELSE "Low"

\* get_water_stress_label without the fall-back to the baseline label.
get_water_stress_label_NoFallback(water_data, scenario, decade) ==
    IF ~Truthy(water_data.future)
    THEN "No Data"
    ELSE LET f == water_data.future.val
             key == PrefixOf[scenario] \o YearOf[decade] \o "_ws_x_l"
         IN  IF key \in DOMAIN f THEN f[key] ELSE "No Data"

\* Helper for Water Stress from WRI data.
get_water_stress_label(water_data, scenario, decade) ==
    IF ~Truthy(water_data.future)
    THEN IF Truthy(water_data.baseline) THEN water_data.baseline.val.bws_label ELSE "No Data"
    ELSE LET f == water_data.future.val
             key == PrefixOf[scenario] \o YearOf[decade] \o "_ws_x_l"
         IN  IF key \in DOMAIN f THEN f[key] ELSE "No Data"

\* round(x * scale) of a number, "nan" for NaN: the digits f"{x:.kf}" prints.
Fmt(x, scale) ==
    IF IsNaN(x)
    THEN [nan |-> TRUE, digits |-> 0]
    ELSE [nan |-> FALSE, digits |-> (2 * x.n * scale + x.d) \div (2 * x.d)]

\* f"{'+' if v > 0 else ''}{v:.kf} unit".
Signed(v, scale, unit) ==
    [sign |-> IF RGt(v, Num(0)) THEN "+" ELSE "", text |-> Fmt(v, scale), unit |-> unit]

ReportRow(scenario, decade, temp, precip, ws, labels) ==
       ("Scenario" :> scenario) @@ ("Decade" :> decade)
    @@ ("Temp" :> temp) @@ ("Precip" :> precip)
    @@ ("Water Stress (WRI)" :> ws)
    @@ ("Drought Risk" :> labels.drought) @@ ("Flood Risk" :> labels.flood)
    @@ ("Wildfire Risk" :> labels.wildfire)

\* 1. Current Row.
CurrentRow(climate_data, water_data) ==
    LET b_t == climate_data.baseline_temp
        b_p == climate_data.baseline_precip
    IN  ReportRow("Current Baseline", "1991-2020",
                  [sign |-> "", text |-> Fmt(b_t, 100), unit |-> "C"],
                  [sign |-> "", text |-> Fmt(b_p, 1), unit |-> "mm"],
                  IF Truthy(water_data.baseline) THEN water_data.baseline.val.bws_label ELSE "Unknown",
                  get_climate_labels(b_t, b_p))

\* The body of the inner loop of 2. Future Rows.
FutureRow(climate_data, water_data, sc_name, dec) ==
    LET b_t == climate_data.baseline_temp
        b_p == climate_data.baseline_precip
        delta_t == RSub(dec.metrics.temp, b_t)
        delta_p_pct == IF NotZero(b_p)
                       THEN RMulInt(RDiv(RSub(dec.metrics.precip, b_p), b_p), 100)
                       ELSE Num(0)
    IN  ReportRow(sc_name, dec.name,
                  Signed(delta_t, 100, "C"),
                  Signed(delta_p_pct, 10, "%"),
                  get_water_stress_label(water_data, sc_name, dec.name),
                  get_climate_labels(dec.metrics.temp, dec.metrics.precip))

\* The rows of one scenario, in the order of its decades dict.
ScenarioRows(climate_data, water_data, sc) ==
    [j \in 1..Len(sc.decades) |-> FutureRow(climate_data, water_data, sc.name, sc.decades[j])]

\* The rows of the scenarios i.. of climate_data["future"], in dict order.
RECURSIVE FutureRowsFrom(_, _, _)
FutureRowsFrom(climate_data, water_data, i) ==
    IF i > Len(climate_data.future)
    THEN <<>>
    ELSE ScenarioRows(climate_data, water_data, climate_data.future[i])
         \o FutureRowsFrom(climate_data, water_data, i + 1)

\* calculate_risk_table appending the current row after the future rows.
calculate_risk_table_BaselineLast(climate_data, water_data) ==
    FutureRowsFrom(climate_data, water_data, 1) \o <<CurrentRow(climate_data, water_data)>>

calculate_risk_table(climate_data, water_data) ==
    <<CurrentRow(climate_data, water_data)>> \o FutureRowsFrom(climate_data, water_data, 1)

(***************************************************************************)
(* main: the run_btn branch.                                               *)
(***************************************************************************)
\* geolocator.reverse: an address dict, or None when the call raises.
GeoResults ==
    {None,
     Some([state |-> "England", country |-> "United Kingdom"])}

get_location_name(geo) ==
    IF ~geo.some
    THEN "Unknown Location"
    ELSE LET address == geo.val
         IN  (IF "state" \in DOMAIN address THEN address.state ELSE "")
             \o ", " \o
             (IF "country" \in DOMAIN address THEN address.country ELSE "Unknown")

MainAnalysis ==
    /\ pc = "main"
    /\ c_data.some
    /\ LET df == calculate_risk_table(c_data.val, w_data)
       IN  \E geo \in GeoResults :
              rendered' =
                  [kind |-> "analysis",
                   subheader |-> get_location_name(geo),
                   baseline_temp |-> Fmt(c_data.val.baseline_temp, 10),
                   baseline_precip |-> Fmt(c_data.val.baseline_precip, 1),
                   ws_val |-> IF Truthy(w_data.baseline) THEN w_data.baseline.val.bws_label ELSE "N/A",
                   df |-> df]
    /\ pc' = "done"
    /\ UNCHANGED <<hist_resp, sc_i, future_data, calls, c_data, w_data, arg, ret>>

MainUnavailable ==
    /\ pc = "main"
    /\ ~c_data.some
    /\ rendered' = [kind |-> "unavailable"]
    /\ pc' = "done"
    /\ UNCHANGED <<hist_resp, sc_i, future_data, calls, c_data, w_data, arg, ret>>

(***************************************************************************)
(* The run: run_btn pressed once.                                          *)
(***************************************************************************)
Init ==
    /\ pc = "fetch_hist"
    /\ hist_resp = None
    /\ sc_i = 1
    /\ future_data = <<>>
    /\ calls = [c \in ClimateCalls |-> "pending"]
    /\ c_data = None
    /\ w_data = [baseline |-> None, future |-> None]
    /\ rendered = [kind |-> "idle"]
    /\ arg = None
    /\ ret = None

Next ==
    \/ FetchHistorical
    \/ FetchHistoricalFails
    \/ FetchScenario
    \/ FetchScenarioFails
    \/ ProcessHistorical
    \/ GetWaterRiskData
    \/ MainAnalysis
    \/ MainUnavailable

Spec == Init /\ [][Next]_vars


(***************************************************************************)
(* The aggregation steps and the classifier on their own: one call of      *)
(* DecadalSlicing, BaselineAggregates or get_climate_labels on an input    *)
(* drawn from a bounded set.                                               *)
(***************************************************************************)
\* TimePoint values with temperature and precipitation missing independently.
AggObs ==
    {[temp |-> t, precip |-> p] : t \in {NaN, Num(10), Num(20)}, p \in {NaN, Num(3000)}}

\* Years at the edges and in the middle of the decade windows.
AggYears == {2021, 2025, 2030, 2031, 2045, 2050}

ClassTemps == {NaN, Num(12), Rat(141, 10), Num(15), Num(16)}

ClassPrecips ==
    {NaN} \cup {Num(k) : k \in {0, 499, 500, 580, 599, 600, 650, 799, 800, 801, 1200, 1201}}

PureInputs ==
         {[fn |-> "DecadalSlicing", df_f |-> s] : s \in SeriesOf(AggYears, AggObs, MaxAggPts)}
    \cup {[fn |-> "BaselineAggregates", h |-> s] : s \in SeqsUpTo(AggObs, MaxAggPts)}
    \cup {[fn |-> "get_climate_labels", t |-> t, p |-> p] : t \in ClassTemps, p \in ClassPrecips}

InitPure ==
    /\ pc = "call"
    /\ arg \in PureInputs
    /\ ret = None
    /\ hist_resp = None
    /\ sc_i = 1
    /\ future_data = <<>>
    /\ calls = [c \in ClimateCalls |-> "pending"]
    /\ c_data = None
    /\ w_data = [baseline |-> None, future |-> None]
    /\ rendered = [kind |-> "idle"]

Returns(v) ==
    /\ ret' = Some(v)
    /\ pc' = "returned"
    /\ UNCHANGED <<hist_resp, sc_i, future_data, calls, c_data, w_data, rendered, arg>>

CallDecadalSlicing ==
    /\ pc = "call"
    /\ arg.fn = "DecadalSlicing"
    /\ Returns(DecadalSlicing(arg.df_f))

CallBaselineAggregates ==
    /\ pc = "call"
    /\ arg.fn = "BaselineAggregates"
    /\ Returns(BaselineAggregates(arg.h))

CallClimateLabels ==
    /\ pc = "call"
    /\ arg.fn = "get_climate_labels"
    /\ Returns(get_climate_labels(arg.t, arg.p))

NextPure ==
    \/ CallDecadalSlicing
    \/ CallBaselineAggregates
    \/ CallClimateLabels

SpecPure == InitPure /\ [][NextPure]_vars


(***************************************************************************)
(* Properties of the aggregation steps and the classifier (SpecPure).      *)
(***************************************************************************)
Returned(fn) == pc = "returned" /\ arg.fn = fn

\* The decade slices of the series a DecadalSlicing call was given.
WindowOf(d) == Slice(arg.df_f, d.from, d.to)

\* The entries of the returned future_data[sc_name] for decade d.
EntriesFor(d) == {i \in 1..Len(ret.val) : ret.val[i].name = d.name}

AllNull(w) == Len(w) > 0 /\ \A i \in 1..Len(w) : IsNaN(w[i].temp) /\ IsNaN(w[i].precip)

\* The mean of the values that are not null.
MeanOfNonNull(vals) ==
    LET nn == {i \in 1..Len(vals) : ~IsNaN(vals[i])}
        RECURSIVE Total(_)
        Total(I) == IF I = {} THEN Num(0)
                    ELSE LET i == CHOOSE i \in I : TRUE IN RAdd(vals[i], Total(I \ {i}))
    IN  RDivInt(Total(nn), Cardinality(nn))

\* The sum of the values that are not null.
SumOfNonNull(vals) ==
    LET nn == {i \in 1..Len(vals) : ~IsNaN(vals[i])}
        RECURSIVE Total(_)
        Total(I) == IF I = {} THEN Num(0)
                    ELSE LET i == CHOOSE i \in I : TRUE IN RAdd(vals[i], Total(I \ {i}))
    IN  Total(nn)

HasNonNull(vals) == \E i \in 1..Len(vals) : ~IsNaN(vals[i])

\* C4: a window all of whose temperature and precipitation values are null
\* gets no numeric summary: it is absent from the result, or tagged missing
\* (NaN), and its precipitation is never the number 0.0 that the classifier
\* would then label.
C4_AllNullWindowAbsent ==
    Returned("DecadalSlicing") =>
        \A k \in 1..Len(decades) :
            AllNull(WindowOf(decades[k])) =>
                \A i \in EntriesFor(decades[k]) :
                    IsNaN(ret.val[i].metrics.temp) /\ IsNaN(ret.val[i].metrics.precip)

\* C5: in the baseline window and in every decade window that holds a non-null
\* value, the mean temperature is the mean of the non-null temperatures and the
\* precipitation aggregate is the sum of the non-null values over the window's
\* divisor: a null is left out, it does not change the aggregate of the rest.
C5_NullsExcluded ==
    /\ Returned("BaselineAggregates") =>
          /\ HasNonNull(Column(arg.h, "temp")) =>
                ret.val.baseline_temp = MeanOfNonNull(Column(arg.h, "temp"))
          /\ HasNonNull(Column(arg.h, "precip")) =>
                ret.val.baseline_precip
                    = RDivInt(SumOfNonNull(Column(arg.h, "precip")), BaselineYears)
    /\ Returned("DecadalSlicing") =>
          \A k \in 1..Len(decades) :
              \A i \in EntriesFor(decades[k]) :
                  LET w == WindowOf(decades[k])
                  IN  /\ HasNonNull(Column(w, "temp")) =>
                            ret.val[i].metrics.temp = MeanOfNonNull(Column(w, "temp"))
                      /\ HasNonNull(Column(w, "precip")) =>
                            ret.val[i].metrics.precip
                                = RDivInt(SumOfNonNull(Column(w, "precip")), DecadeYears)

\* C6 as stated: 12.0 C and 650 mm is labelled Drought "Medium", and 14.1 C and
\* 580 mm is labelled Drought "High".
C6_DroughtMediumToHigh ==
    Returned("get_climate_labels") =>
        /\ (arg.t = Num(12) /\ arg.p = Num(650)) => ret.val.drought = "Medium"
        /\ (arg.t = Rat(141, 10) /\ arg.p = Num(580)) => ret.val.drought = "High"

\* C6 as amended: 12.0 C and 650 mm is labelled Drought "Medium" and so is
\* 14.1 C and 580 mm; Drought is "High" exactly below 500 mm, whatever the
\* temperature, so the label does not change between the two rows.
C6_DroughtStaysMedium ==
    Returned("get_climate_labels") =>
        /\ (arg.t = Num(12) /\ arg.p = Num(650)) => ret.val.drought = "Medium"
        /\ (arg.t = Rat(141, 10) /\ arg.p = Num(580)) => ret.val.drought = "Medium"
        /\ ret.val.drought = "High" <=> (~IsNaN(arg.p) /\ arg.p.n < 500 * arg.p.d)

\* C6 witness: the classifier has labelled the 2031-2040 summary of the scenario.
C6_Witness ==
    /\ Returned("get_climate_labels")
    /\ arg.t = Rat(141, 10)
    /\ arg.p = Num(580)
    /\ ret.val.drought = "Medium"

\* The window's first and last year both hold a TimePoint.
FullyCovered(w, d) == Len(w) > 0 /\ w[1].year = d.from /\ w[Len(w)].year = d.to

YearsSpanned(w) == w[Len(w)].year - w[1].year + 1

\* C9: a decade window the series covers only partly reports the precipitation
\* sum actually observed, not divided by a fixed window length; a fully covered
\* window reports the sum of the non-null values divided by the number of years
\* the data spans.  (The summary has no field that could flag a partial window.)
C9_PartialWindowNotRescaled ==
    Returned("DecadalSlicing") =>
        \A k \in 1..Len(decades) :
            \A i \in EntriesFor(decades[k]) :
                LET w == WindowOf(decades[k])
                    m == ret.val[i].metrics
                    observed == SumOfNonNull(Column(w, "precip"))
                IN  IF FullyCovered(w, decades[k])
                    THEN m.precip = RDivInt(observed, YearsSpanned(w))
                    ELSE m.precip = observed


(***************************************************************************)
(* Properties of the run (Spec).                                           *)
(***************************************************************************)
Analysed == pc = "done" /\ rendered.kind = "analysis"

WRI == "Water Stress (WRI)"

NotAvailable == {"No Data", "Unknown", "N/A"}

\* The (scenario, decade) summaries of climate_data["future"].
HasSummary(climate_data, sc_name, dec_name) ==
    \E i \in 1..Len(climate_data.future) :
        /\ climate_data.future[i].name = sc_name
        /\ \E j \in 1..Len(climate_data.future[i].decades) :
              climate_data.future[i].decades[j].name = dec_name

NSummaries(climate_data) ==
    Cardinality({<<i, j>> \in (1..Len(scenarios_to_fetch)) \X (1..Len(decades)) :
                    HasSummary(climate_data, scenarios_to_fetch[i].name, decades[j].name)})

\* C1: at the end of a run no climate call was left unattempted because another
\* call failed, and the data of every call that succeeded is in the rendered
\* result: an analysis is rendered as soon as one climate fetch or one hazard
\* query succeeded, and it shows the baseline hazard label that was retrieved.
C1_FailureIsolated ==
    pc = "done" =>
        /\ \A c \in ClimateCalls : calls[c] # "pending"
        /\ (\E c \in ClimateCalls : calls[c] = "ok") => rendered.kind = "analysis"
        /\ w_data.future.some => rendered.kind = "analysis"
        /\ w_data.baseline.some =>
              /\ rendered.kind = "analysis"
              /\ rendered.ws_val = w_data.baseline.val.bws_label

\* The summary of a row's scenario and decade in climate_data["future"].
SummaryOf(climate_data, row) ==
    LET i == CHOOSE i \in 1..Len(climate_data.future) :
                 climate_data.future[i].name = row["Scenario"]
        ds == climate_data.future[i].decades
    IN  ds[CHOOSE j \in 1..Len(ds) : ds[j].name = row["Decade"]].metrics

\* A formatted number cell: digits (or nan) and a unit.
Populated(cell) == DOMAIN cell.text = {"nan", "digits"} /\ cell.unit \in {"C", "mm", "%"}

\* The cells of a future row print a number whenever the aggregates they are
\* computed from are numbers.
FutureCellsNumeric(climate_data, row) ==
    LET m == SummaryOf(climate_data, row)
        b_t == climate_data.baseline_temp
        b_p == climate_data.baseline_precip
    IN  /\ row["Temp"].text.nan <=> (IsNaN(b_t) \/ IsNaN(m.temp))
        /\ row["Precip"].text.nan <=> (IsNaN(b_p) \/ (b_p.n # 0 /\ IsNaN(m.precip)))

\* C2: when both hazard records are None and the climate fetch succeeded, the
\* table holds the baseline row and one row per scenario x decade summary, each
\* with Temp and Precip cells formatted from the climate aggregates, "Unknown"
\* in the baseline row's water stress column and "No Data" in every future
\* row's.
C2_HazardAbsentRows ==
    (pc = "done" /\ c_data.some /\ ~w_data.baseline.some /\ ~w_data.future.some) =>
        /\ rendered.kind = "analysis"
        /\ Len(rendered.df) = 1 + NSummaries(c_data.val)
        /\ rendered.df[1]["Scenario"] = "Current Baseline"
        /\ rendered.df[1][WRI] = "Unknown"
        /\ \A i \in 2..Len(rendered.df) : rendered.df[i][WRI] = "No Data"
        /\ \A i \in 1..Len(rendered.df) :
              Populated(rendered.df[i]["Temp"]) /\ Populated(rendered.df[i]["Precip"])
        /\ rendered.df[1]["Temp"].text = Fmt(c_data.val.baseline_temp, 100)
        /\ rendered.df[1]["Precip"].text = Fmt(c_data.val.baseline_precip, 1)
        /\ \A i \in 2..Len(rendered.df) : FutureCellsNumeric(c_data.val, rendered.df[i])

\* C2 witness: a table with future rows was rendered with no hazard record.
C2_Witness ==
    /\ Analysed
    /\ ~w_data.baseline.some
    /\ ~w_data.future.some
    /\ Len(rendered.df) >= 3

\* C3: every decade window of every scenario series is accounted for in the
\* climate data and in the table, by a summary or by an explicit absent entry:
\* a window without points does not disappear.
C3_AbsentWindowExplicit ==
    Analysed =>
        \A i \in 1..Len(scenarios_to_fetch), j \in 1..Len(decades) :
            /\ HasSummary(c_data.val, scenarios_to_fetch[i].name, decades[j].name)
            /\ \E r \in 1..Len(rendered.df) :
                  /\ rendered.df[r]["Scenario"] = scenarios_to_fetch[i].name
                  /\ rendered.df[r]["Decade"] = decades[j].name

\* The scenario and decade names in declaration and chronological order.
C7_Order ==
    << <<"SSP1-2.6 (Ambitious)", "2020s (2021-30)">>,
       <<"SSP1-2.6 (Ambitious)", "2030s (2031-40)">>,
       <<"SSP1-2.6 (Ambitious)", "2040s (2041-50)">>,
       <<"SSP2-4.5 (Optimistic)", "2020s (2021-30)">>,
       <<"SSP2-4.5 (Optimistic)", "2030s (2031-40)">>,
       <<"SSP2-4.5 (Optimistic)", "2040s (2041-50)">>,
       <<"SSP3-7.0 (BAU)", "2020s (2021-30)">>,
       <<"SSP3-7.0 (BAU)", "2030s (2031-40)">>,
       <<"SSP3-7.0 (BAU)", "2040s (2041-50)">> >>

\* C7: the table is the "Current Baseline" row, once and first, followed by
\* exactly one row per summary of the climate data, scenarios in declaration
\* order and decades in chronological order within a scenario.
C7_RowOrder ==
    Analysed =>
        LET df == rendered.df
            expected == SelectSeq(C7_Order, LAMBDA sd : HasSummary(c_data.val, sd[1], sd[2]))
        IN  /\ Len(df) = 1 + Len(expected)
            /\ df[1]["Scenario"] = "Current Baseline"
            /\ \A r \in 2..Len(df) :
                  /\ df[r]["Scenario"] = expected[r - 1][1]
                  /\ df[r]["Decade"] = expected[r - 1][2]

\* C7 witness: a table with two scenarios of two decades each.
C7_Witness ==
    /\ Analysed
    /\ \E a, b \in 2..(Len(rendered.df) - 1) :
          /\ a + 2 <= b
          /\ rendered.df[a]["Scenario"] = rendered.df[a + 1]["Scenario"]
          /\ rendered.df[b]["Scenario"] = rendered.df[b + 1]["Scenario"]
          /\ rendered.df[a]["Scenario"] # rendered.df[b]["Scenario"]

\* The WRI column of a row: prefix by scenario, horizon by decade.
C10_Key(scenario, decade) ==
    (CASE scenario = "SSP1-2.6 (Ambitious)" -> "opt"
       [] scenario = "SSP2-4.5 (Optimistic)" -> "bau"
       [] scenario = "SSP3-7.0 (BAU)" -> "pes")
    \o
    (CASE decade = "2020s (2021-30)" -> "30"
       [] decade = "2030s (2031-40)" -> "30"
       [] decade = "2040s (2041-50)" -> "50")
    \o "_ws_x_l"

\* The external label of a future row is missing.
LabelMissing(row) ==
    \/ ~w_data.future.some
    \/ C10_Key(row["Scenario"], row["Decade"]) \notin DOMAIN w_data.future.val

C10_LabelByKey ==
    (Analysed /\ w_data.future.some) =>
        \A r \in 2..Len(rendered.df) :
            LET row == rendered.df[r]
                key == C10_Key(row["Scenario"], row["Decade"])
                f == w_data.future.val
            IN  row[WRI] = IF key \in DOMAIN f THEN f[key] ELSE "No Data"

\* C10 witness: rows of the 2030s and of the 2040s were labelled from a full record.
C10_Witness ==
    /\ Analysed
    /\ w_data.future.some
    /\ DOMAIN w_data.future.val = Range(cols_future)
    /\ \E a, b \in 2..Len(rendered.df) :
          /\ rendered.df[a]["Decade"] = "2030s (2031-40)"
          /\ rendered.df[a][WRI] = w_data.future.val[C10_Key(rendered.df[a]["Scenario"], "2030s (2031-40)")]
          /\ rendered.df[b]["Decade"] = "2040s (2041-50)"
          /\ rendered.df[b]["Scenario"] = "SSP3-7.0 (BAU)"
          /\ rendered.df[b][WRI] = w_data.future.val["pes50_ws_x_l"]

=============================================================================
